---- MODULE Spec2Model ----
(***************************************************************************)
(* State-machine model of the blog application in src/app.py: the three    *)
(* tables (users, blog_posts, comments), the per-browser login session,    *)
(* and one action per route handler.  Each handler is one atomic step      *)
(* (request in, commit, response out); the register handler is also        *)
(* modelled in two steps (existence check, then commit) for the            *)
(* interleaving specification SpecConc.                                     *)
(***************************************************************************)
EXTENDS Integers, FiniteSets, Sequences, TLC

\* ---------------------------------------------------------------- bounds
\* the largest number of users, and the largest post id and comment id, that
\* the store hands out
MaxUsers    == 2
MaxPosts    == 2
MaxComments == 2

\* ------------------------------------------------------- input alphabets
Clients   == {"browser"}
Workers   == {"w1", "w2"}
Emails    == {"a@x", "b@x"}
Passwords == {"pw1", "pw2"}
Names     == {"name"}
Salts     == {"salt"}
Texts     == {"x"}
Dates     == {[y |-> 2025, m |-> 1, d |-> 5]}
PostIds   == 1..(MaxPosts + 1)
\* submitted CreatePostForm data
Fields ==
    {[title |-> "t1", subtitle |-> "s1", body |-> "b1", img_url |-> "i1"],
     [title |-> "t1", subtitle |-> "s2", body |-> "b2", img_url |-> "i2"],
     [title |-> "t2", subtitle |-> "s2", body |-> "b2", img_url |-> "i1"]}

Anonymous == 0      \* session value of a browser that is not logged in
AdminId   == 1      \* admin_only compares current_user.id with 1
NoPost    == 0      \* no row: an INSERT has no row of its own yet
None      == [op |-> "none"]

\* users, posts, comments: the rows of the three tables
\* session[c]: the user id in browser c's session cookie (Anonymous if none)
\* pending[w]: the register request that server thread w holds between its
\*             SELECT and its commit (None if w is idle)
\* req, resp:  the request handled last (route and browser) and its response
VARIABLES users, posts, comments, session, pending, req, resp

vars == <<users, posts, comments, session, pending, req, resp>>

\* ---------------------------------------------------------------- helpers
SetMax(S) == CHOOSE x \in S : \A y \in S : y <= x

\* Integer primary key of the default SQLite store: largest rowid plus one.
NextId(rows) == IF rows = {} THEN 1 ELSE SetMax({r.id : r \in rows}) + 1

\* werkzeug.security: the stored value carries method, salt and the derived
\* key; the derivation is modelled as an injective function of (salt, pw).
DeriveKey(salt, pw) == <<"pbkdf2:sha256", salt, pw>>

generate_password_hash(pw, salt) ==
    [method |-> "pbkdf2:sha256", salt |-> salt, key |-> DeriveKey(salt, pw)]

\* mutant: the comparison of the derived keys is lost
check_password_hash_any(h, pw) == TRUE

check_password_hash(h, pw) == h.key = DeriveKey(h.salt, pw)

MonthName ==
    <<"January", "February", "March", "April", "May", "June", "July",
      "August", "September", "October", "November", "December">>

Pad2(n) == IF n < 10 THEN "0" \o ToString(n) ELSE ToString(n)

\* date.strftime("%B %d, %Y")
Strftime(t) == MonthName[t.m] \o " " \o Pad2(t.d) \o ", " \o ToString(t.y)

\* mutant: the anonymous user counts as authenticated
IsAuthenticated_always(c) == TRUE

\* current_user.is_authenticated for the browser c
IsAuthenticated(c) == session[c] # Anonymous

UserByEmail(email) == {u \in users : u.email = email}
PostById(id)       == {p \in posts : p.id = id}
CommentsOf(id)     == {k \in comments : k.post_id = id}

\* responses
Render              == [code |-> 200, to |-> "none", flash |-> "none"]
Redirect(to, flash) == [code |-> 302, to |-> to, flash |-> flash]
Abort(code)         == [code |-> code, to |-> "none", flash |-> "none"]

Reply(route, c, r) ==
    /\ req' = [route |-> route, client |-> c]
    /\ resp' = r

FlashDuplicateEmail == "You've already signed up with that email, log in instead!"
FlashInvalidLogin   == "Invalid credentials, please try again."
FlashNeedLogin      == "You need to login or register to comment."

\* ------------------------------------------------------------------- Init
Init ==
    /\ users = {}
    /\ posts = {}
    /\ comments = {}
    /\ session = [c \in Clients |-> Anonymous]
    /\ pending = [w \in Workers |-> None]
    /\ req = [route |-> "none", client |-> CHOOSE c \in Clients : TRUE]
    /\ resp = Abort(0)

\* --------------------------------------------------------------- register
\* mutant: users.email declared without unique=True
EmailUnique_off(email) == TRUE

\* INSERT into users; the unique index on users.email rejects a duplicate.
EmailUnique(email) == UserByEmail(email) = {}

NewUser(email, pw, name, salt) ==
    [id |-> NextId(users), email |-> email,
     password |-> generate_password_hash(pw, salt), name |-> name]

InFlight == Cardinality({w \in Workers : pending[w] # None})

\* db.session.add(new_user); db.session.commit(); login_user(new_user).
\* A commit that violates the unique index raises IntegrityError, which the
\* handler does not catch: the transaction is rolled back and the response
\* is the generic server error.
CommitNewUser(c, email, pw, name, salt) ==
    IF EmailUnique(email)
    THEN /\ users' = users \cup {NewUser(email, pw, name, salt)}
         /\ session' = [session EXCEPT ![c] = NextId(users)]
         /\ Reply("register", c, Redirect("get_all_posts", "none"))
    ELSE /\ Reply("register", c, Abort(500))
         /\ UNCHANGED <<users, session>>

\* mutant: the handler without the SELECT and the branch on its result
register_no_lookup(c, submit, email, pw, name, salt) ==
    /\ IF ~submit
       THEN /\ Reply("register", c, Render)
            /\ UNCHANGED <<users, session>>
       ELSE /\ Cardinality(users) + InFlight < MaxUsers
            /\ CommitNewUser(c, email, pw, name, salt)
    /\ UNCHANGED <<posts, comments, pending>>

register(c, submit, email, pw, name, salt) ==
    /\ IF ~submit
       THEN /\ Reply("register", c, Render)
            /\ UNCHANGED <<users, session>>
       ELSE IF UserByEmail(email) # {}
       THEN /\ Reply("register", c, Redirect("login", FlashDuplicateEmail))
            /\ UNCHANGED <<users, session>>
       ELSE /\ Cardinality(users) + InFlight < MaxUsers
            /\ CommitNewUser(c, email, pw, name, salt)
    /\ UNCHANGED <<posts, comments, pending>>

\* The same handler in two steps, for interleaved requests: the SELECT of
\* line 101 and the branch on it, then the commit of lines 105-110.
RegisterCheck(w, c, email, pw, name, salt) ==
    /\ pending[w] = None
    /\ UserByEmail(email) = {}
    /\ Cardinality(users) + InFlight < MaxUsers
    /\ pending' = [pending EXCEPT ![w] =
           [op |-> "register", client |-> c, email |-> email, pw |-> pw,
            name |-> name, salt |-> salt]]
    /\ UNCHANGED <<users, posts, comments, session, req, resp>>

RegisterCommit(w) ==
    /\ pending[w] # None
    /\ CommitNewUser(pending[w].client, pending[w].email, pending[w].pw,
                     pending[w].name, pending[w].salt)
    /\ pending' = [pending EXCEPT ![w] = None]
    /\ UNCHANGED <<posts, comments>>

\* ------------------------------------------------------------------ login
login(c, submit, email, pw) ==
    /\ IF ~submit
       THEN /\ Reply("login", c, Render)
            /\ UNCHANGED session
       ELSE IF \/ UserByEmail(email) = {}
               \/ \E u \in UserByEmail(email) : ~check_password_hash(u.password, pw)
       THEN /\ Reply("login", c, Redirect("login", FlashInvalidLogin))
            /\ UNCHANGED session
       ELSE /\ \E u \in UserByEmail(email) : session' = [session EXCEPT ![c] = u.id]
            /\ Reply("login", c, Redirect("get_all_posts", "none"))
    /\ UNCHANGED <<users, posts, comments, pending>>

\* ----------------------------------------------------------------- logout
logout(c) ==
    /\ session' = [session EXCEPT ![c] = Anonymous]
    /\ Reply("logout", c, Redirect("get_all_posts", "none"))
    /\ UNCHANGED <<users, posts, comments, pending>>

\* mutant: the guard checks only that somebody is logged in
admin_only_any_user(c) == IsAuthenticated(c)

\* ------------------------------------------------------------- admin_only
\* decorated_function: abort(403) unless authenticated and id == 1
admin_only(c) == IsAuthenticated(c) /\ session[c] = AdminId

\* mutant: the comment is attributed to the admin instead of current_user
NewComment_by_admin(text, author, post_id) ==
    [id |-> NextId(comments), text |-> text, author_id |-> AdminId, post_id |-> post_id]

\* ----------------------------------------------------------------- comment
NewComment(text, author, post_id) ==
    [id |-> NextId(comments), text |-> text, author_id |-> author, post_id |-> post_id]

show_post(c, post_id, submit, text) ==
    /\ IF PostById(post_id) = {}
       THEN /\ Reply("show_post", c, Abort(404))
            /\ UNCHANGED comments
       ELSE IF submit /\ ~IsAuthenticated(c)
       THEN /\ Reply("show_post", c, Redirect("login", FlashNeedLogin))
            /\ UNCHANGED comments
       ELSE IF submit
       THEN /\ NextId(comments) <= MaxComments
            /\ comments' = comments \cup {NewComment(text, session[c], post_id)}
            /\ Reply("show_post", c, Render)
       ELSE /\ Reply("show_post", c, Render)
            /\ UNCHANGED comments
    /\ UNCHANGED <<users, posts, session, pending>>

\* ------------------------------------------------------------------- posts
\* unique index on blog_posts.title, checked by the store at commit; self is
\* the id of the row being written (NoPost for an INSERT)
TitleUnique(title, self) == \A p \in posts : p.id # self => p.title # title

NewPost(f, author, today) ==
    [id |-> NextId(posts), author_id |-> author, title |-> f.title,
     subtitle |-> f.subtitle, date |-> Strftime(today), body |-> f.body,
     img_url |-> f.img_url]

add_new_post(c, submit, f, today) ==
    /\ IF ~admin_only(c)
       THEN /\ Reply("add_new_post", c, Abort(403))
            /\ UNCHANGED posts
       ELSE IF ~submit
       THEN /\ Reply("add_new_post", c, Render)
            /\ UNCHANGED posts
       ELSE IF ~TitleUnique(f.title, NoPost)
       THEN /\ Reply("add_new_post", c, Abort(500))
            /\ UNCHANGED posts
       ELSE /\ NextId(posts) <= MaxPosts
            /\ posts' = posts \cup {NewPost(f, session[c], today)}
            /\ Reply("add_new_post", c, Redirect("get_all_posts", "none"))
    /\ UNCHANGED <<users, comments, session, pending>>

\* mutant: the body is left out of the assignment
EditedPost_without_body(p, f) ==
    [p EXCEPT !.title = f.title, !.subtitle = f.subtitle, !.img_url = f.img_url]

EditedPost(p, f) ==
    [p EXCEPT !.title = f.title, !.subtitle = f.subtitle,
              !.img_url = f.img_url, !.body = f.body]

edit_post(c, post_id, submit, f) ==
    /\ IF ~admin_only(c)
       THEN /\ Reply("edit_post", c, Abort(403))
            /\ UNCHANGED posts
       ELSE IF PostById(post_id) = {}
       THEN /\ Reply("edit_post", c, Abort(404))
            /\ UNCHANGED posts
       ELSE IF ~submit
       THEN /\ Reply("edit_post", c, Render)
            /\ UNCHANGED posts
       ELSE IF ~TitleUnique(f.title, post_id)
       THEN /\ Reply("edit_post", c, Abort(500))
            /\ UNCHANGED posts
       ELSE /\ posts' = {IF p.id = post_id THEN EditedPost(p, f) ELSE p : p \in posts}
            /\ Reply("edit_post", c, Redirect("show_post", "none"))
    /\ UNCHANGED <<users, comments, session, pending>>

\* mutant: the store accepts the delete and keeps the comments
DeleteCommits_always(post_id) == TRUE

\* db.session.delete(post): the comments relationship has no delete cascade,
\* so the unit of work first sets post_id of every comment of the post to
\* NULL.  comments.post_id is declared Mapped[...] without Optional, i.e.
\* NOT NULL, so that UPDATE raises IntegrityError when the post has a
\* comment: the commit fails, nothing is deleted, the response is 500.
DeleteCommits(post_id) == CommentsOf(post_id) = {}

delete_post(c, post_id) ==
    /\ IF ~admin_only(c)
       THEN /\ Reply("delete_post", c, Abort(403))
            /\ UNCHANGED posts
       ELSE IF PostById(post_id) = {}
       THEN /\ Reply("delete_post", c, Abort(404))
            /\ UNCHANGED posts
       ELSE IF ~DeleteCommits(post_id)
       THEN /\ Reply("delete_post", c, Abort(500))
            /\ UNCHANGED posts
       ELSE /\ posts' = posts \ PostById(post_id)
            /\ Reply("delete_post", c, Redirect("get_all_posts", "none"))
    /\ UNCHANGED <<users, comments, session, pending>>

\* ------------------------------------------------------------------- Next
\* The data a request carries in a form field: any value of the field when
\* the form is submitted and validates, one fixed value (never read by the
\* handler) when validate_on_submit() is false.
FormData(submit, values) == IF submit THEN values ELSE {CHOOSE v \in values : TRUE}

DoRegister ==
    \E c \in Clients, submit \in BOOLEAN :
       \E email \in FormData(submit, Emails), pw \in FormData(submit, Passwords),
          name \in FormData(submit, Names), salt \in Salts :
          register(c, submit, email, pw, name, salt)

DoLogin ==
    \E c \in Clients, submit \in BOOLEAN :
       \E email \in FormData(submit, Emails), pw \in FormData(submit, Passwords) :
          login(c, submit, email, pw)

DoLogout == \E c \in Clients : logout(c)

DoShowPost ==
    \E c \in Clients, id \in PostIds, submit \in BOOLEAN :
       \E text \in FormData(submit, Texts) : show_post(c, id, submit, text)

DoAddNewPost ==
    \E c \in Clients, submit \in BOOLEAN, today \in Dates :
       \E f \in FormData(submit, Fields) : add_new_post(c, submit, f, today)

DoEditPost ==
    \E c \in Clients, id \in PostIds, submit \in BOOLEAN :
       \E f \in FormData(submit, Fields) : edit_post(c, id, submit, f)

DoDeletePost == \E c \in Clients, id \in PostIds : delete_post(c, id)

DoRegisterCheck ==
    \E w \in Workers, c \in Clients, email \in Emails, pw \in Passwords,
       name \in Names, salt \in Salts : RegisterCheck(w, c, email, pw, name, salt)

DoRegisterCommit == \E w \in Workers : RegisterCommit(w)

Next ==
    \/ DoRegister
    \/ DoLogin
    \/ DoLogout
    \/ DoShowPost
    \/ DoAddNewPost
    \/ DoEditPost
    \/ DoDeletePost

Spec == Init /\ [][Next]_vars

\* Two server threads interleave inside register, next to the atomic
\* handlers that read or write the users table and the session.  The post and
\* comment handlers are left out of this specification: they neither read
\* nor write users, session or pending, and register reads no post or comment.
NextConc ==
    \/ DoRegister
    \/ DoLogin
    \/ DoLogout
    \/ DoRegisterCheck
    \/ DoRegisterCommit

SpecConc == Init /\ [][NextConc]_vars

\* ================================================================ claims
AdminRoutes == {"add_new_post", "edit_post", "delete_post"}
Tables      == <<users, posts, comments>>

\* the password a stored user registered with (preimage of the stored key)
RegisteredPassword(u) == u.password.key[3]

\* C1: a request to /new-post, /edit-post/<id> or /delete/<id> from a session
\* that is anonymous or whose user id is not 1 is answered 403 and changes no
\* table; the set of posts changes only in a step that handles such a request
\* from the session of user 1.
C1_AdminOnly ==
    [][ /\ ( /\ req'.route \in AdminRoutes
             /\ (session[req'.client] = Anonymous \/ session[req'.client] # AdminId) )
           => (resp' = Abort(403) /\ UNCHANGED <<Tables, session>>)
        /\ (posts' # posts)
           => (req'.route \in AdminRoutes /\ session[req'.client] = AdminId)
      ]_vars

\* a logged-in user other than the admin asked to delete a post and got 403
\* while posts are stored
C1_Witness ==
    /\ req.route = "delete_post"
    /\ resp.code = 403
    /\ session[req.client] \notin {Anonymous, AdminId}
    /\ posts # {}

\* C2: a delete request of the admin for an existing post, with any number of
\* comments, removes the post and every comment that referenced it, and
\* leaves the comments of other posts as they were.
C2_DeleteCascades ==
    [][ (req'.route = "delete_post") =>
        \A c \in Clients, id \in PostIds :
          ( /\ session[c] = AdminId
            /\ \E p \in posts : p.id = id
            /\ delete_post(c, id) )
          => /\ {p \in posts' : p.id = id} = {}
             /\ {k \in comments' : k.post_id = id} = {}
             /\ {k \in comments' : k.post_id # id} = {k \in comments : k.post_id # id}
      ]_vars

\* C3: a validated register request whose email is already stored leaves the
\* users table and the session as they were and answers with a redirect to
\* login carrying the flash message.
C3_DuplicateEmail ==
    [][ (req'.route = "register") =>
        \A c \in Clients, email \in Emails, pw \in Passwords, name \in Names, salt \in Salts :
          ( /\ \E u \in users : u.email = email
            /\ register(c, TRUE, email, pw, name, salt) )
          => /\ users' = users
             /\ session' = session
             /\ resp' = Redirect("login", FlashDuplicateEmail)
      ]_vars

C3_Witness ==
    /\ req.route = "register"
    /\ resp = Redirect("login", FlashDuplicateEmail)
    /\ Cardinality(users) = 1
    /\ session[req.client] = Anonymous

\* C4: a validated login request whose email is not stored, or whose password
\* is not the one the stored user registered with, answers with the flash
\* message and a redirect to login and leaves the session as it was; a session
\* becomes the session of user u only in a register step that created u or in
\* a login step that submitted u's email and u's password.
C4_LoginFailure ==
    [][ /\ (req'.route = "login") =>
           \A c \in Clients, email \in Emails, pw \in Passwords :
             ( /\ \A u \in users : u.email = email => RegisteredPassword(u) # pw
               /\ login(c, TRUE, email, pw) )
             => /\ session' = session
                /\ resp' = Redirect("login", FlashInvalidLogin)
        /\ \A c \in Clients :
             (session'[c] # session[c] /\ session'[c] # Anonymous)
             => \/ /\ req'.route = "register"
                   /\ \E u \in users' \ users : u.id = session'[c]
                \/ /\ req'.route = "login"
                   /\ \E u \in users, pw \in Passwords :
                        /\ u.id = session'[c]
                        /\ RegisteredPassword(u) = pw
                        /\ login(c, TRUE, u.email, pw)
      ]_vars

\* every email of the alphabet is stored, so the refused login gave a wrong
\* password for a stored email
C4_Witness ==
    /\ req.route = "login"
    /\ resp = Redirect("login", FlashInvalidLogin)
    /\ \A email \in Emails : UserByEmail(email) # {}
    /\ session[req.client] = Anonymous

\* C5: a request to /post/<id> from a session without a user never changes
\* the comments table, and when it is a validated comment submission on an
\* existing post the response is the redirect to login.
C5_AnonymousComment ==
    [][ (req'.route = "show_post" /\ session[req'.client] = Anonymous) =>
        /\ comments' = comments
        /\ \A c \in Clients, id \in PostIds, text \in Texts :
             ( /\ session[c] = Anonymous
               /\ \E p \in posts : p.id = id
               /\ show_post(c, id, TRUE, text) )
             => /\ UNCHANGED <<Tables, session>>
                /\ resp' = Redirect("login", FlashNeedLogin)
      ]_vars

\* the browser had been logged in, logged out, and then submitted a comment
C5_Witness ==
    /\ req.route = "show_post"
    /\ resp = Redirect("login", FlashNeedLogin)
    /\ session[req.client] = Anonymous
    /\ users # {}
    /\ posts # {}

\* C6: a validated comment submission on an existing post P by a logged-in
\* user U adds exactly one comment, with author U, parent P and the submitted
\* text, and changes no other comment, no post, no user and no session; a
\* post that has just been created has no comment.
C6_CommentAdded ==
    [][ /\ (req'.route = "show_post") =>
           \A c \in Clients, id \in PostIds, text \in Texts :
             ( /\ session[c] # Anonymous
               /\ \E p \in posts : p.id = id
               /\ show_post(c, id, TRUE, text) )
             => /\ \E k \in comments' :
                     /\ \A j \in comments : j.id # k.id
                     /\ comments' = comments \cup {k}
                     /\ k.author_id = session[c]
                     /\ k.post_id = id
                     /\ k.text = text
                /\ Cardinality(comments') = Cardinality(comments) + 1
                /\ UNCHANGED <<users, posts, session>>
        /\ \A p \in posts' \ posts :
             (\A q \in posts : q.id # p.id) => {k \in comments' : k.post_id = p.id} = {}
      ]_vars

\* user 1 wrote the post, user 2 is logged in and has just commented on it:
\* the post has exactly one comment and its author is user 2
C6_Witness ==
    /\ req.route = "show_post"
    /\ resp = Render
    /\ session[req.client] = 2
    /\ Cardinality(comments) = 1
    /\ \E p \in posts :
         /\ p.author_id = AdminId
         /\ Cardinality(CommentsOf(p.id)) = 1
         /\ \A k \in CommentsOf(p.id) : k.author_id = 2

\* C7: every stored comment references exactly one stored user and exactly
\* one stored post, and every stored post references exactly one stored user.
C7_References ==
    /\ \A k \in comments :
         /\ Cardinality({u \in users : u.id = k.author_id}) = 1
         /\ Cardinality({p \in posts : p.id = k.post_id}) = 1
    /\ \A p \in posts : Cardinality({u \in users : u.id = p.author_id}) = 1

\* the admin asked to delete a post that has a comment, and the store
\* refused the commit
C7_Witness ==
    /\ req.route = "delete_post"
    /\ session[req.client] = AdminId
    /\ resp = Abort(500)
    /\ comments # {}

\* C8: a validated create-post request of the admin whose title is the title
\* of a stored post is answered with a flash message and a redirect, and
\* leaves the posts table as it was.
C8_DuplicateTitle ==
    [][ (req'.route = "add_new_post") =>
        \A c \in Clients, f \in Fields, today \in Dates :
          ( /\ session[c] = AdminId
            /\ \E p \in posts : p.title = f.title
            /\ add_new_post(c, TRUE, f, today) )
          => /\ posts' = posts
             /\ resp'.code = 302
             /\ resp'.flash # "none"
      ]_vars

\* C9: no two stored users have the same email, also when two register
\* requests for the same email are both past the existence check.
C9_UniqueEmail ==
    \A u1 \in users, u2 \in users : u1.email = u2.email => u1 = u2

\* two threads were past the check with the same email; the first has
\* committed and the commit of the second has been rejected by the store
C9_Witness ==
    /\ req.route = "register"
    /\ resp = Abort(500)
    /\ users # {}

\* C10: a successful edit of post id by the admin sets that post's title,
\* subtitle, image URL and body to the submitted values and keeps its id,
\* date and author; every other post, every comment, every user and the
\* session are unchanged.
C10_EditFrame ==
    [][ (req'.route = "edit_post" /\ resp'.code = 302) =>
        \A c \in Clients, id \in PostIds, f \in Fields :
          ( /\ session[c] = AdminId
            /\ edit_post(c, id, TRUE, f) )
          => /\ \E p \in posts, q \in posts' :
                  /\ p.id = id /\ q.id = id
                  /\ q.title = f.title /\ q.subtitle = f.subtitle
                  /\ q.img_url = f.img_url /\ q.body = f.body
                  /\ q.date = p.date /\ q.author_id = p.author_id
                  /\ posts' \ {q} = posts \ {p}
             /\ UNCHANGED <<users, comments, session>>
      ]_vars

\* post 1 has a comment and carries the values of an edit that kept its
\* title and replaced the other fields, while another post is stored
C10_Witness ==
    /\ req.route = "edit_post"
    /\ resp = Redirect("show_post", "none")
    /\ Cardinality(posts) = 2
    /\ \E p \in posts :
         /\ p.id = 1
         /\ CommentsOf(p.id) # {}
         /\ p.title = "t1" /\ p.subtitle = "s2" /\ p.body = "b2" /\ p.img_url = "i2"
====
